---- MODULE Spec2Model ----
(***************************************************************************)
(* A model of the runtests conformance-test harness:                       *)
(*   - TestCase.set_result          (src/runtests/core.py)                 *)
(*   - Job / TestBatch partitioning (src/runtests/core.py)                 *)
(*   - Runtests.run, the batch loop (src/runtests.py)                      *)
(* Strings are sequences of one-character strings, so that the substring   *)
(* test and the concatenation of set_result are computed, not assumed.     *)
(***************************************************************************)
EXTENDS Integers, Sequences, FiniteSets, TLC

VARIABLES
    testcases,   \* test id -> TestCase object (its fields)
    args,        \* arguments of the latest set_result call (history)
    batch_size,  \* Job._batch_size: <<>> is None, <<n>> is the number n
    batches,     \* Job.batches: sequence of TestBatch objects
    discovered,  \* tests handed to Job.add_testcase so far, in order (history)
    handlers,    \* Runtests.handlers: sequence of handler ids
    log,         \* handler id -> notifications it has received, in order
    pc,          \* position of Runtests.run
    hidx,        \* index into handlers of the notification loop in progress
    current,     \* the TestCase popped by the loop (0: none)
    timer,       \* the batch's Timer: "unset", "started", "stopped"
    exc,         \* the exception that ended run ("" if none)
    popped,      \* tests popped from the pending queue so far (history)
    sig,         \* Runtests.interrupted and the progress of Runtests.interrupt_handler
    db,          \* the registered DBManager: its configuration, connection and cursor
    interp,      \* the Interpreter and the progress of one Interpreter.run_test
    meta,        \* one TestCase's metadata fields, its test file and the reads of it
    tbl,         \* the test_cases table and the latest insert_ignore_many call
    condor       \* the job's database ids, the rows written for it and the cluster dispatch

vars == <<testcases, args, batch_size, batches, discovered, handlers, log,
          pc, hidx, current, timer, exc, popped, sig, db, interp, meta, tbl,
          condor>>

----------------------------------------------------------------------------
(* Bounds *)
MaxPieces == 2      \* a captured output is a concatenation of at most MaxPieces pieces
MaxTests == 4       \* tests handed to a Job
MaxBatchSize == 3   \* largest batch size tried
MaxRunTests == 2    \* pending tests of the batch handed to Runtests.run
MaxHandlers == 2    \* handlers registered with Runtests
MaxIds == 2         \* primary keys of the test_cases table
MaxRecords == 2     \* records of one insert_ignore_many call

----------------------------------------------------------------------------
(* TestCase's fake-enum for result, and the interpreter's verdicts *)
TestCase_UNKNOWN == 0
TestCase_PASS == 1
TestCase_FAIL == 2
TestCase_ABORT == 3
TestCase_TIMEOUT == 4

Interpreter_PASS == 0
Interpreter_FAIL == 1
Interpreter_ABORT == 2
Interpreter_TIMEOUT == 3

InterpVerdicts ==
    {Interpreter_PASS, Interpreter_FAIL, Interpreter_ABORT, Interpreter_TIMEOUT}

----------------------------------------------------------------------------
(* Strings *)
NotEarlyError ==
    <<"N","o","t","E","a","r","l","y","E","r","r","o","r">>

\* "\n\n[Runtests] Test should have errored with an EarlyError, and not a runtime error."
EarlyErrorNote ==
    <<
      "\n","\n","[","R","u","n","t","e","s","t","s","]"," ","T","e","s",
      "t"," ","s","h","o","u","l","d"," ","h","a","v","e"," ","e","r",
      "r","o","r","e","d"," ","w","i","t","h"," ","a","n"," ","E","a",
      "r","l","y","E","r","r","o","r",","," ","a","n","d"," ","n","o",
      "t"," ","a"," ","r","u","n","t","i","m","e"," ","e","r","r","o",
      "r","." >>

\* s contains m as a contiguous substring (Python's  m in s)
Contains(s, m) ==
    \E i \in 1..(Len(s) - Len(m) + 1) : SubSeq(s, i, i + Len(m) - 1) = m

\* The captured outputs tried: concatenations of at most MaxPieces pieces.
\* "Not" followed by "EarlyError" spells the marker across two pieces.
Pieces == { <<"x">>, <<"N","o","t">>, <<"E","a","r","l","y","E","r","r","o","r">> }

RECURSIVE StringsUpTo(_)
StringsUpTo(n) ==
    IF n = 0 THEN { <<>> }
    ELSE LET shorter == StringsUpTo(n - 1)
         IN  shorter \cup { s \o p : s \in shorter, p \in Pieces }

Outputs == StringsUpTo(MaxPieces)
ExitCodes == {0, 1, 139}

Range(s) == { s[i] : i \in 1..Len(s) }

----------------------------------------------------------------------------
(* TestCase *)
NoValue == -1

\* A TestCase after construction and metadata load: the class-level defaults
NewTestCase(neg) ==
    [negative |-> neg, result |-> TestCase_UNKNOWN, interp_result |-> NoValue,
     exit_code |-> -1, stdout |-> <<>>, stderr |-> <<>>]

HasMarker(stdout, stderr) ==
    Contains(stdout, NotEarlyError) \/ Contains(stderr, NotEarlyError)

\* Mutant: the final else branch is missing, result keeps its old value
set_result_noelse(tc, interp_result, exit_code, stdout, stderr) ==
    LET r == IF interp_result = Interpreter_ABORT
                THEN [result |-> TestCase_ABORT, stderr |-> stderr]
             ELSE IF interp_result = Interpreter_TIMEOUT
                THEN [result |-> TestCase_TIMEOUT, stderr |-> stderr]
             ELSE IF tc.negative
                THEN IF HasMarker(stdout, stderr)
                        THEN [result |-> TestCase_FAIL, stderr |-> stderr \o EarlyErrorNote]
                     ELSE IF interp_result = Interpreter_PASS
                        THEN [result |-> TestCase_FAIL, stderr |-> stderr]
                     ELSE [result |-> TestCase_PASS, stderr |-> stderr]
             ELSE IF interp_result = Interpreter_PASS
                THEN [result |-> TestCase_PASS, stderr |-> stderr]
             ELSE [result |-> tc.result, stderr |-> stderr]
    IN  [tc EXCEPT !.interp_result = interp_result, !.result = r.result,
                   !.exit_code = exit_code, !.stdout = stdout, !.stderr = r.stderr]

\* Mutant: a negative test is classified like a normal one (no inversion)
set_result_naive(tc, interp_result, exit_code, stdout, stderr) ==
    LET r == IF interp_result = Interpreter_ABORT
                THEN [result |-> TestCase_ABORT, stderr |-> stderr]
             ELSE IF interp_result = Interpreter_TIMEOUT
                THEN [result |-> TestCase_TIMEOUT, stderr |-> stderr]
             ELSE IF tc.negative /\ HasMarker(stdout, stderr)
                THEN [result |-> TestCase_FAIL, stderr |-> stderr \o EarlyErrorNote]
             ELSE IF interp_result = Interpreter_PASS
                THEN [result |-> TestCase_PASS, stderr |-> stderr]
             ELSE [result |-> TestCase_FAIL, stderr |-> stderr]
    IN  [tc EXCEPT !.interp_result = interp_result, !.result = r.result,
                   !.exit_code = exit_code, !.stdout = stdout, !.stderr = r.stderr]

\* Mutant: the marker is looked for only after the plain inversion of PASS
set_result_marker_late(tc, interp_result, exit_code, stdout, stderr) ==
    LET r == IF interp_result = Interpreter_ABORT
                THEN [result |-> TestCase_ABORT, stderr |-> stderr]
             ELSE IF interp_result = Interpreter_TIMEOUT
                THEN [result |-> TestCase_TIMEOUT, stderr |-> stderr]
             ELSE IF tc.negative
                THEN IF interp_result = Interpreter_PASS
                        THEN [result |-> TestCase_FAIL, stderr |-> stderr]
                     ELSE IF HasMarker(stdout, stderr)
                        THEN [result |-> TestCase_FAIL, stderr |-> stderr \o EarlyErrorNote]
                     ELSE [result |-> TestCase_PASS, stderr |-> stderr]
             ELSE IF interp_result = Interpreter_PASS
                THEN [result |-> TestCase_PASS, stderr |-> stderr]
             ELSE [result |-> TestCase_FAIL, stderr |-> stderr]
    IN  [tc EXCEPT !.interp_result = interp_result, !.result = r.result,
                   !.exit_code = exit_code, !.stdout = stdout, !.stderr = r.stderr]

\* Mutant: no branch for TIMEOUT, it falls through to the PASS/FAIL logic
set_result_no_timeout(tc, interp_result, exit_code, stdout, stderr) ==
    LET r == IF interp_result = Interpreter_ABORT
                THEN [result |-> TestCase_ABORT, stderr |-> stderr]
             ELSE IF tc.negative
                THEN IF HasMarker(stdout, stderr)
                        THEN [result |-> TestCase_FAIL, stderr |-> stderr \o EarlyErrorNote]
                     ELSE IF interp_result = Interpreter_PASS
                        THEN [result |-> TestCase_FAIL, stderr |-> stderr]
                     ELSE [result |-> TestCase_PASS, stderr |-> stderr]
             ELSE IF interp_result = Interpreter_PASS
                THEN [result |-> TestCase_PASS, stderr |-> stderr]
             ELSE [result |-> TestCase_FAIL, stderr |-> stderr]
    IN  [tc EXCEPT !.interp_result = interp_result, !.result = r.result,
                   !.exit_code = exit_code, !.stdout = stdout, !.stderr = r.stderr]

\* Mutant: the marker is looked for whether or not the test is negative
set_result_marker_any(tc, interp_result, exit_code, stdout, stderr) ==
    LET r == IF interp_result = Interpreter_ABORT
                THEN [result |-> TestCase_ABORT, stderr |-> stderr]
             ELSE IF interp_result = Interpreter_TIMEOUT
                THEN [result |-> TestCase_TIMEOUT, stderr |-> stderr]
             ELSE IF HasMarker(stdout, stderr)
                THEN [result |-> TestCase_FAIL, stderr |-> stderr \o EarlyErrorNote]
             ELSE IF tc.negative
                THEN IF interp_result = Interpreter_PASS
                        THEN [result |-> TestCase_FAIL, stderr |-> stderr]
                     ELSE [result |-> TestCase_PASS, stderr |-> stderr]
             ELSE IF interp_result = Interpreter_PASS
                THEN [result |-> TestCase_PASS, stderr |-> stderr]
             ELSE [result |-> TestCase_FAIL, stderr |-> stderr]
    IN  [tc EXCEPT !.interp_result = interp_result, !.result = r.result,
                   !.exit_code = exit_code, !.stdout = stdout, !.stderr = r.stderr]

\* TestCase.set_result: r is the pair (self.result, local stderr) the
\* if-chain leaves behind; the assignments after it store the rest
set_result(tc, interp_result, exit_code, stdout, stderr) ==
    LET r == IF interp_result = Interpreter_ABORT
                THEN [result |-> TestCase_ABORT, stderr |-> stderr]
             ELSE IF interp_result = Interpreter_TIMEOUT
                THEN [result |-> TestCase_TIMEOUT, stderr |-> stderr]
             ELSE IF tc.negative
                THEN IF HasMarker(stdout, stderr)
                        THEN [result |-> TestCase_FAIL, stderr |-> stderr \o EarlyErrorNote]
                     ELSE IF interp_result = Interpreter_PASS
                        THEN [result |-> TestCase_FAIL, stderr |-> stderr]
                     ELSE [result |-> TestCase_PASS, stderr |-> stderr]
             ELSE IF interp_result = Interpreter_PASS
                THEN [result |-> TestCase_PASS, stderr |-> stderr]
             ELSE [result |-> TestCase_FAIL, stderr |-> stderr]
    IN  [tc EXCEPT !.interp_result = interp_result, !.result = r.result,
                   !.exit_code = exit_code, !.stdout = stdout, !.stderr = r.stderr]

passed(tc) == tc.result = TestCase_PASS
failed(tc) == tc.result = TestCase_FAIL
aborted(tc) == tc.result = TestCase_ABORT
timeout(tc) == tc.result = TestCase_TIMEOUT

----------------------------------------------------------------------------
(* TestBatch *)
NewTestBatch ==
    [pending_tests |-> <<>>, passed_tests |-> <<>>,
     failed_tests |-> <<>>, aborted_tests |-> <<>>]

\* Mutant: appendleft, the queue is served last in, first out
TestBatch_add_testcase_left(b, t) ==
    [b EXCEPT !.pending_tests = <<t>> \o @]

\* TestBatch.add_testcase: pending_tests.append(testcase)
TestBatch_add_testcase(b, t) ==
    [b EXCEPT !.pending_tests = Append(@, t)]

has_testcase(b) == Len(b.pending_tests) > 0

\* TestBatch.get_testcase: popleft; the popped test is Head(b.pending_tests)
get_testcase(b) == [b EXCEPT !.pending_tests = Tail(@)]

\* Mutant: if / if / else instead of if / elif / else
test_finished_ifif(b, t, tc) ==
    LET b1 == IF passed(tc) THEN [b EXCEPT !.passed_tests = Append(@, t)] ELSE b
    IN  IF failed(tc) THEN [b1 EXCEPT !.failed_tests = Append(@, t)]
        ELSE [b1 EXCEPT !.aborted_tests = Append(@, t)]

\* TestBatch.test_finished: t is the test, tc its fields
test_finished(b, t, tc) ==
    IF passed(tc) THEN [b EXCEPT !.passed_tests = Append(@, t)]
    ELSE IF failed(tc) THEN [b EXCEPT !.failed_tests = Append(@, t)]
    ELSE [b EXCEPT !.aborted_tests = Append(@, t)]

get_finished_testcases(b) == b.passed_tests \o b.failed_tests \o b.aborted_tests

----------------------------------------------------------------------------
(* Job *)
None == <<>>

\* Python truthiness of Job._batch_size (None and 0 are false)
Truthy(size) == size # None /\ size[1] # 0

BatchSizes == {None} \cup { <<n>> : n \in 0..MaxBatchSize }

new_batch(bs) == Append(bs, NewTestBatch)

\* Job.__init__: the list of batches starts with one empty batch
NewJobBatches == new_batch(<<>>)

\* Mutant: > instead of >= lets a batch grow to size + 1
Job_add_testcase_gt(size, bs, t) ==
    LET bs1 == IF Truthy(size) /\ Len(bs[Len(bs)].pending_tests) > size[1]
                  THEN new_batch(bs) ELSE bs
    IN  [bs1 EXCEPT ![Len(bs1)] = TestBatch_add_testcase(@, t)]

\* Mutant: the truthiness test of the batch size is missing
Job_add_testcase_nozero(size, bs, t) ==
    LET n == IF size = None THEN 0 ELSE size[1]
        bs1 == IF Len(bs[Len(bs)].pending_tests) >= n
                  THEN new_batch(bs) ELSE bs
    IN  [bs1 EXCEPT ![Len(bs1)] = TestBatch_add_testcase(@, t)]

\* Job.add_testcase
Job_add_testcase(size, bs, t) ==
    LET bs1 == IF Truthy(size) /\ Len(bs[Len(bs)].pending_tests) >= size[1]
                  THEN new_batch(bs) ELSE bs
    IN  [bs1 EXCEPT ![Len(bs1)] = TestBatch_add_testcase(@, t)]

\* Job.add_testcases: add_testcase for each test, in order
RECURSIVE Job_add_testcases(_, _, _)
Job_add_testcases(size, bs, ts) ==
    IF ts = <<>> THEN bs
    ELSE Job_add_testcases(size, Job_add_testcase(size, bs, Head(ts)), Tail(ts))

----------------------------------------------------------------------------
(* Interpreter *)
pass_code == 0
fail_code == 1

\* The engines: the base class and its subclasses, which override fail_code
\* (Spidermonkey) or setup/teardown (LambdaS5, chdir)
Interpreter_generic ==
    [arg_name |-> "generic", pass_code |-> pass_code, fail_code |-> fail_code,
     chdir |-> FALSE]
Spidermonkey == [Interpreter_generic EXCEPT !.arg_name = "spidermonkey", !.fail_code = 3]
NodeJS == [Interpreter_generic EXCEPT !.arg_name = "node"]
LambdaS5 == [Interpreter_generic EXCEPT !.arg_name = "lambdas5", !.chdir = TRUE]
JSRef == [Interpreter_generic EXCEPT !.arg_name = "jsref"]

Engines == {Interpreter_generic, Spidermonkey, NodeJS, LambdaS5, JSRef}

\* Mutant: the class-level default fail_code instead of the engine's own
determine_result_default(self, ret) ==
    IF ret = self.pass_code THEN Interpreter_PASS
    ELSE IF ret = fail_code THEN Interpreter_FAIL
    ELSE Interpreter_ABORT

determine_result(self, ret) ==
    IF ret = self.pass_code THEN Interpreter_PASS
    ELSE IF ret = self.fail_code THEN Interpreter_FAIL
    ELSE Interpreter_ABORT

\* LambdaS5.setup: remember the working directory, chdir to the interpreter's;
\* Interpreter.setup is pass
setup(i) ==
    IF i.self.chdir
        THEN [i EXCEPT !.current_dir = i.cwd, !.cwd = "interp_dir"]
        ELSE i

\* LambdaS5.teardown: chdir back; Interpreter.teardown is pass
teardown(i) ==
    IF i.self.chdir THEN [i EXCEPT !.cwd = i.current_dir] ELSE i

----------------------------------------------------------------------------
(* Values of the variables a specification does not use *)
NoArgs ==
    [called |-> FALSE, interp_result |-> NoValue, exit_code |-> -1,
     stdout |-> <<>>, stderr |-> <<>>]

NoJob == batch_size = None /\ batches = <<>> /\ discovered = <<>>

NoRun ==
    /\ handlers = <<>>
    /\ log = <<>>
    /\ pc = "idle"
    /\ hidx = 1
    /\ current = 0
    /\ timer = "unset"
    /\ exc = ""
    /\ popped = <<>>

\* No interrupt received, the process has not exited
NoSig == sig = [interrupted |-> FALSE, ihidx |-> 1, ignored |-> FALSE, status |-> NoValue]

\* No DBManager is registered as a handler
NoDB ==
    db = [handler |-> 0, backend |-> "sqlite", wait_for_batch |-> FALSE,
          conn |-> "none", cur |-> "none", written |-> {}, misuse |-> FALSE]

NoInterp == interp = <<>>
NoMeta == meta = <<>>
NoTbl == tbl = <<>>
NoCondor == condor = <<>>

jobVars == <<batch_size, batches, discovered>>
runVars == <<handlers, log, pc, hidx, current, timer, exc, popped>>
auxVars == <<interp, meta, tbl, condor>>

----------------------------------------------------------------------------
(* SpecSetResult: TestCase.set_result on one TestCase, any arguments *)
InitSetResult ==
    /\ \E neg \in BOOLEAN : testcases = <<NewTestCase(neg)>>
    /\ args = NoArgs
    /\ NoJob
    /\ NoRun
    /\ NoCondor
    /\ NoSig /\ NoDB /\ NoInterp /\ NoMeta /\ NoTbl

\* Interpreter.run_test calls set_result once on each TestCase it runs
SetResult ==
    \E iv \in InterpVerdicts, ec \in ExitCodes, out \in Outputs, err \in Outputs :
        /\ ~args.called
        /\ testcases' = [testcases EXCEPT ![1] = set_result(@, iv, ec, out, err)]
        /\ args' = [called |-> TRUE, interp_result |-> iv, exit_code |-> ec,
                    stdout |-> out, stderr |-> err]
        /\ UNCHANGED <<auxVars, sig, db, jobVars, runVars>>

NextSetResult == SetResult

SpecSetResult == InitSetResult /\ [][NextSetResult]_vars

----------------------------------------------------------------------------
(* SpecJob: a freshly created Job receiving tests *)
Tests == 1..MaxTests

InitJob ==
    /\ testcases = <<>>
    /\ args = NoArgs
    /\ batch_size \in BatchSizes
    /\ batches = NewJobBatches
    /\ discovered = <<>>
    /\ NoRun
    /\ NoCondor
    /\ NoSig /\ NoDB /\ NoInterp /\ NoMeta /\ NoTbl

\* The sequences of n distinct tests, none of them in the set used
RECURSIVE FreshSeqs(_, _)
FreshSeqs(n, used) ==
    IF n = 0 THEN { <<>> }
    ELSE UNION { { <<t>> \o s : s \in FreshSeqs(n - 1, used \cup {t}) }
                 : t \in Tests \ used }

AddTestcase ==
    \E t \in Tests \ Range(discovered) :
        /\ batches' = Job_add_testcase(batch_size, batches, t)
        /\ discovered' = Append(discovered, t)
        /\ UNCHANGED <<auxVars, sig, db, testcases, args, batch_size, runVars>>

AddTestcases ==
    \E n \in 0..(MaxTests - Len(discovered)) :
        \E ts \in FreshSeqs(n, Range(discovered)) :
            /\ batches' = Job_add_testcases(batch_size, batches, ts)
            /\ discovered' = discovered \o ts
            /\ UNCHANGED <<auxVars, sig, db, testcases, args, batch_size, runVars>>

NextJob == AddTestcase \/ AddTestcases

SpecJob == InitJob /\ [][NextJob]_vars

----------------------------------------------------------------------------
(* Spec: Runtests.run on the first batch of a job, with registered handlers *)
RunTests == 1..MaxRunTests

\* What a test's subprocess may print
RunOutputs == { <<>>, NotEarlyError }

Orders(n) == { s \in [1..n -> 1..n] : \A i, j \in 1..n : s[i] = s[j] => i = j }

Init ==
    /\ \E n \in 0..MaxRunTests :
          /\ testcases \in [1..n -> { NewTestCase(neg) : neg \in BOOLEAN }]
          /\ \E ts \in Orders(n) :
                /\ batches = Job_add_testcases(None, NewJobBatches, ts)
                /\ discovered = ts
    /\ batch_size = None
    /\ args = NoArgs
    /\ NoRun
    /\ NoCondor
    /\ NoSig /\ NoDB /\ NoInterp /\ NoMeta /\ NoTbl

\* Runtests.add_result_handler, before the run
add_result_handler ==
    /\ pc = "idle"
    /\ Len(handlers) < MaxHandlers
    /\ handlers' = Append(handlers, Len(handlers) + 1)
    /\ log' = Append(log, <<>>)
    /\ UNCHANGED <<auxVars, sig, db, testcases, args, jobVars, pc, hidx, current, timer, exc, popped>>

\* run: set_machine_details, start_timer, enter the start_batch loop
RunStart ==
    /\ pc = "idle"
    /\ timer' = "started"
    /\ pc' = "start_batch"
    /\ hidx' = 1
    /\ UNCHANGED <<auxVars, sig, db, testcases, args, jobVars, handlers, log, current, exc, popped>>

----------------------------------------------------------------------------
(* DBManager, the persistence handler.  A method either returns or raises;  *)
(* misuse records that it touched a cursor or connection that was not open. *)
Returned(d) == [db |-> d, raised |-> FALSE]
Raised(d) == [db |-> [d EXCEPT !.misuse = TRUE], raised |-> TRUE]

\* the statements of a method in sequence: nothing runs after an exception
Then(r, Op(_)) == IF r.raised THEN r ELSE Op(r.db)

\* PostgresDBManager.connect; DBManager.connect (SQLite) is pass
DB_connect(d) ==
    IF d.backend = "postgres" /\ d.conn # "open"
        THEN Returned([d EXCEPT !.conn = "open", !.cur = "open"])
        ELSE Returned(d)

\* PostgresDBManager.disconnect; DBManager.disconnect (SQLite) is pass
DB_disconnect(d) ==
    IF d.backend = "postgres"
        THEN IF d.cur = "none" THEN Raised(d)
             ELSE Returned([d EXCEPT !.cur = "none", !.conn = "closed"])
        ELSE Returned(d)

\* update_object(obj): update -> update_many -> self.cur.executemany
DB_update_object(d, obj) ==
    IF d.cur = "open" /\ d.conn = "open"
        THEN Returned([d EXCEPT !.written = @ \cup {obj}])
        ELSE Raised(d)

\* self.conn.commit()
DB_commit(d) ==
    IF d.conn = "open" THEN Returned(d) ELSE Raised(d)

\* DBManager.start_batch
DB_start_batch(d) ==
    LET r == Then(Then(DB_connect(d), LAMBDA x : DB_update_object(x, 0)), DB_commit)
    IN  IF ~d.wait_for_batch THEN Then(r, DB_disconnect) ELSE r

\* DBManager.finish_test
DB_finish_test(d, t) ==
    IF ~d.wait_for_batch
        THEN Then(DB_update_object(d, t), DB_commit)
        ELSE Returned(d)

\* The DBManager method Runtests.run calls for a notification
DB_notify(d, kind, subject) ==
    CASE kind = "start_batch" -> DB_start_batch(d)
      [] kind = "start_test" -> Returned(d)
      [] kind = "finish_test" -> DB_finish_test(d, subject)

----------------------------------------------------------------------------
\* One iteration of  for handler in self.handlers: handler.<kind>(subject).
\* The handler receives the notification and returns, or raises; run has no
\* try/except, so an exception leaves the loop and run itself.  The
\* DBManager raises when its code does, any other handler may or may not.
Deliver(kind, subject) ==
    /\ hidx <= Len(handlers)
    /\ log' = [log EXCEPT ![handlers[hidx]] = Append(@, <<kind, subject>>)]
    /\ IF handlers[hidx] = db.handler
          THEN LET r == DB_notify(db, kind, subject)
               IN  /\ db' = r.db
                   /\ IF r.raised
                         THEN pc' = "aborted" /\ exc' = "HandlerError" /\ UNCHANGED hidx
                         ELSE hidx' = hidx + 1 /\ UNCHANGED <<pc, exc>>
          ELSE /\ db' = db
               /\ \/ /\ hidx' = hidx + 1
                     /\ UNCHANGED <<pc, exc>>
                  \/ /\ pc' = "aborted"
                     /\ exc' = "HandlerError"
                     /\ UNCHANGED hidx

\* Mutant: the for loop is left after any number of handlers
LoopDone_early(next) ==
    /\ pc' = next
    /\ hidx' = 1
    /\ UNCHANGED <<log, exc, db>>

\* The for loop is exhausted: go on at the statement after it
LoopDone(next) ==
    /\ hidx > Len(handlers)
    /\ pc' = next
    /\ hidx' = 1
    /\ UNCHANGED <<log, exc, db>>

StartBatchNotify ==
    /\ pc = "start_batch"
    /\ Deliver("start_batch", 0)
    /\ UNCHANGED <<auxVars, sig, testcases, args, jobVars, handlers, current, timer, popped>>

StartBatchDone ==
    /\ pc = "start_batch"
    /\ LoopDone("loop")
    /\ UNCHANGED <<auxVars, sig, testcases, args, jobVars, handlers, current, timer, popped>>

\* while batch.has_testcase(): testcase = batch.get_testcase()
GetTestcase ==
    /\ pc = "loop"
    /\ has_testcase(batches[1])
    /\ current' = Head(batches[1].pending_tests)
    /\ popped' = Append(popped, Head(batches[1].pending_tests))
    /\ batches' = [batches EXCEPT ![1] = get_testcase(@)]
    /\ pc' = "start_test"
    /\ hidx' = 1
    /\ UNCHANGED <<auxVars, sig, db, testcases, args, batch_size, discovered, handlers, log, timer, exc>>

StartTestNotify ==
    /\ pc = "start_test"
    /\ Deliver("start_test", current)
    /\ UNCHANGED <<auxVars, sig, testcases, args, jobVars, handlers, current, timer, popped>>

StartTestDone ==
    /\ pc = "start_test"
    /\ LoopDone("run_test")
    /\ UNCHANGED <<auxVars, sig, testcases, args, jobVars, handlers, current, timer, popped>>

\* Interpreter.run_test: the subprocess exits with ret and its output (on
\* stdout here, stderr empty), determine_result classifies ret, set_result
\* stores the outcome
RunTestReturns ==
    /\ pc = "run_test"
    /\ \E ret \in ExitCodes, out \in RunOutputs :
          testcases' = [testcases EXCEPT
                           ![current] = set_result(@, determine_result(Interpreter_generic, ret), ret, out, <<>>)]
    /\ pc' = "test_finished"
    /\ UNCHANGED <<auxVars, sig, db, args, jobVars, handlers, log, hidx, current, timer, exc, popped>>

\* Interpreter.run_test: Popen or the decoding of the output raises
RunTestRaises ==
    /\ pc = "run_test"
    /\ pc' = "aborted"
    /\ exc' = "RunTestError"
    /\ UNCHANGED <<auxVars, sig, db, testcases, args, jobVars, handlers, log, hidx, current, timer, popped>>

\* Mutant: the handlers are told before the test is filed in a bucket
TestFinished_unfiled ==
    /\ pc = "test_finished"
    /\ pc' = "finish_test"
    /\ hidx' = 1
    /\ UNCHANGED <<auxVars, sig, db, testcases, args, jobVars, handlers, log, current,
                   timer, exc, popped>>

\* batch.test_finished(testcase)
TestFinished ==
    /\ pc = "test_finished"
    /\ batches' = [batches EXCEPT ![1] = test_finished(@, current, testcases[current])]
    /\ pc' = "finish_test"
    /\ hidx' = 1
    /\ UNCHANGED <<auxVars, sig, db, testcases, args, batch_size, discovered, handlers, log, current,
                   timer, exc, popped>>

FinishTestNotify ==
    /\ pc = "finish_test"
    /\ Deliver("finish_test", current)
    /\ UNCHANGED <<auxVars, sig, testcases, args, jobVars, handlers, current, timer, popped>>

FinishTestDone ==
    /\ pc = "finish_test"
    /\ LoopDone("loop")
    /\ UNCHANGED <<auxVars, sig, testcases, args, jobVars, handlers, current, timer, popped>>

\* The while loop ends: batch.stop_timer()
StopTimer ==
    /\ pc = "loop"
    /\ ~has_testcase(batches[1])
    /\ timer' = "stopped"
    /\ pc' = "end_batch"
    /\ hidx' = 1
    /\ UNCHANGED <<auxVars, sig, db, testcases, args, jobVars, handlers, log, current, exc, popped>>

\* handler.end_batch(batch): no handler class defines end_batch (the
\* notification is TestResultHandler.finish_batch), so the attribute lookup
\* raises AttributeError on the first handler and nothing is delivered
EndBatchNotify ==
    /\ pc = "end_batch"
    /\ hidx <= Len(handlers)
    /\ pc' = "aborted"
    /\ exc' = "AttributeError"
    /\ UNCHANGED <<auxVars, sig, db, testcases, args, jobVars, handlers, log, hidx, current, timer, popped>>

EndBatchDone ==
    /\ pc = "end_batch"
    /\ LoopDone("done")
    /\ UNCHANGED <<auxVars, sig, testcases, args, jobVars, handlers, current, timer, popped>>

\* Interpreter.run_test: the subprocess never exits; communicate() has no
\* timeout and waits for it
RunTestHangs ==
    /\ pc = "run_test"
    /\ pc' = "communicate"
    /\ UNCHANGED <<auxVars, sig, db, testcases, args, jobVars, handlers, log, hidx, current,
                   timer, exc, popped>>

\* The positions of run at which SIGINT can be handled
Interruptible ==
    {"start_batch", "loop", "start_test", "run_test", "communicate",
     "test_finished", "finish_test", "end_batch"}

\* SIGINT, first time: Runtests.interrupt_handler runs inside run, sets
\* interrupted and enters its loop over the handlers
Interrupt ==
    /\ pc \in Interruptible
    /\ ~sig.interrupted
    /\ sig' = [sig EXCEPT !.interrupted = TRUE, !.ihidx = 1]
    /\ pc' = "interrupt_handler"
    /\ UNCHANGED <<auxVars, db, testcases, args, jobVars, handlers, log, hidx, current,
                   timer, exc, popped>>

\* SIGINT again while interrupt_handler is at work: interrupted is set, the
\* nested call prints and returns
InterruptAgain ==
    /\ pc = "interrupt_handler"
    /\ sig.interrupted
    /\ sig' = [sig EXCEPT !.ignored = TRUE]
    /\ UNCHANGED <<auxVars, db, testcases, args, jobVars, runVars>>

\* for handler in self.handlers: handler.interrupt_handler(signal, frame);
\* every handler class inherits TestResultHandler.interrupt_handler (pass)
InterruptNotify ==
    /\ pc = "interrupt_handler"
    /\ sig.ihidx <= Len(handlers)
    /\ log' = [log EXCEPT ![handlers[sig.ihidx]] = Append(@, <<"interrupt", 0>>)]
    /\ sig' = [sig EXCEPT !.ihidx = @ + 1]
    /\ UNCHANGED <<auxVars, db, testcases, args, jobVars, handlers, pc, hidx, current,
                   timer, exc, popped>>

\* exit(1) after the loop: SystemExit leaves interrupt_handler and run
Exit ==
    /\ pc = "interrupt_handler"
    /\ sig.ihidx > Len(handlers)
    /\ pc' = "exited"
    /\ sig' = [sig EXCEPT !.status = 1]
    /\ UNCHANGED <<auxVars, db, testcases, args, jobVars, handlers, log, hidx, current,
                   timer, exc, popped>>

\* The steps of run itself
RunStep ==
    \/ RunStart
    \/ StartBatchNotify
    \/ StartBatchDone
    \/ GetTestcase
    \/ StartTestNotify
    \/ StartTestDone
    \/ RunTestReturns
    \/ RunTestRaises
    \/ RunTestHangs
    \/ TestFinished
    \/ FinishTestNotify
    \/ FinishTestDone
    \/ StopTimer
    \/ EndBatchNotify
    \/ EndBatchDone
    \/ InterruptNotify
    \/ Exit

Next ==
    \/ add_result_handler
    \/ RunStart
    \/ StartBatchNotify
    \/ StartBatchDone
    \/ GetTestcase
    \/ StartTestNotify
    \/ StartTestDone
    \/ RunTestReturns
    \/ RunTestRaises
    \/ RunTestHangs
    \/ TestFinished
    \/ FinishTestNotify
    \/ FinishTestDone
    \/ StopTimer
    \/ EndBatchNotify
    \/ EndBatchDone
    \/ Interrupt
    \/ InterruptAgain
    \/ InterruptNotify
    \/ Exit

Spec == Init /\ [][Next]_vars

\* run is sequential code of one process: it takes its next step whenever it
\* has one.  Signals and the registration of handlers are not forced.
FairSpec == Init /\ [][Next]_vars /\ WF_vars(RunStep)

----------------------------------------------------------------------------
(* SpecRunTest: one call of Interpreter.run_test, statement by statement *)
ReturnCodes == ExitCodes \cup {2, 3}

NewInterp(engine) ==
    [self |-> engine, cwd |-> "start_dir", current_dir |-> "",
     rpc |-> "setup", ret |-> NoValue, out |-> <<>>, verdict |-> NoValue,
     tornDown |-> FALSE]

InitRunTest ==
    /\ \E neg \in BOOLEAN : testcases = <<NewTestCase(neg)>>
    /\ \E engine \in Engines : interp = NewInterp(engine)
    /\ args = NoArgs
    /\ NoJob
    /\ NoRun
    /\ NoCondor
    /\ NoSig /\ NoDB /\ NoMeta /\ NoTbl

rtUnchanged == <<args, jobVars, runVars, sig, db, meta, tbl, condor>>

\* self.setup(); command = self.build_args(testcase); testcase.start_timer()
RT_Setup ==
    /\ interp.rpc = "setup"
    /\ interp' = [setup(interp) EXCEPT !.rpc = "popen"]
    /\ UNCHANGED <<testcases, rtUnchanged>>

\* subprocess.Popen(command, ...) starts the subprocess
RT_Popen ==
    /\ interp.rpc = "popen"
    /\ interp' = [interp EXCEPT !.rpc = "communicate"]
    /\ UNCHANGED <<testcases, rtUnchanged>>

\* subprocess.Popen raises OSError: the command cannot be executed
RT_PopenRaises ==
    /\ interp.rpc = "popen"
    /\ interp' = [interp EXCEPT !.rpc = "raised"]
    /\ UNCHANGED <<testcases, rtUnchanged>>

\* output, errors = test_pipe.communicate(); testcase.stop_timer()
RT_Communicate ==
    /\ interp.rpc = "communicate"
    /\ \E ret \in ReturnCodes, out \in RunOutputs :
          interp' = [interp EXCEPT !.rpc = "decode", !.ret = ret, !.out = out]
    /\ UNCHANGED <<testcases, rtUnchanged>>

\* output.decode("utf8").encode("ascii", "xmlcharrefreplace"), same for errors
RT_Decode ==
    /\ interp.rpc = "decode"
    /\ interp' = [interp EXCEPT !.rpc = "determine_result"]
    /\ UNCHANGED <<testcases, rtUnchanged>>

\* decode raises UnicodeDecodeError: the output is not valid UTF-8
RT_DecodeRaises ==
    /\ interp.rpc = "decode"
    /\ interp' = [interp EXCEPT !.rpc = "raised"]
    /\ UNCHANGED <<testcases, rtUnchanged>>

\* result = self.determine_result(testcase, ret, output, errors)
RT_DetermineResult ==
    /\ interp.rpc = "determine_result"
    /\ interp' = [interp EXCEPT !.rpc = "teardown",
                                !.verdict = determine_result(interp.self, interp.ret)]
    /\ UNCHANGED <<testcases, rtUnchanged>>

\* self.teardown()
RT_Teardown ==
    /\ interp.rpc = "teardown"
    /\ interp' = [teardown(interp) EXCEPT !.rpc = "set_result", !.tornDown = TRUE]
    /\ UNCHANGED <<testcases, rtUnchanged>>

\* testcase.set_result(result, ret, output, errors); run_test returns
RT_SetResult ==
    /\ interp.rpc = "set_result"
    /\ testcases' = [testcases EXCEPT
                        ![1] = set_result(@, interp.verdict, interp.ret, interp.out, <<>>)]
    /\ interp' = [interp EXCEPT !.rpc = "returned"]
    /\ UNCHANGED rtUnchanged

NextRunTest ==
    \/ RT_Setup
    \/ RT_Popen
    \/ RT_PopenRaises
    \/ RT_Communicate
    \/ RT_Decode
    \/ RT_DecodeRaises
    \/ RT_DetermineResult
    \/ RT_Teardown
    \/ RT_SetResult

SpecRunTest == InitRunTest /\ [][NextRunTest]_vars

----------------------------------------------------------------------------
(* SpecInsert: insert_ignore_many on the test_cases table, both backends.   *)
(* The table is the list of its rows; a row is a db_tc_dict record.         *)
Ids == 1..MaxIds

TcDicts == [id : Ids, negative : BOOLEAN]

RECURSIVE CollsUpTo(_)
CollsUpTo(n) ==
    IF n = 0 THEN { <<>> }
    ELSE LET shorter == CollsUpTo(n - 1)
         IN  shorter \cup { Append(c, r) : c \in shorter, r \in TcDicts }

\* insert_ignore_many reads coll[0]: the collections tried are not empty
Colls == CollsUpTo(MaxRecords) \ { <<>> }

HasId(rows, id) == \E i \in 1..Len(rows) : rows[i].id = id

\* Mutant: INSERT OR REPLACE, the colliding row is deleted and the new one inserted
InsertOrReplace(rows, rec) ==
    Append(SelectSeq(rows, LAMBDA r : r.id # rec.id), rec)

\* INSERT OR IGNORE INTO t (...) VALUES (...): a row whose id collides is skipped
InsertOrIgnore(rows, rec) ==
    IF HasId(rows, rec.id) THEN rows ELSE Append(rows, rec)

\* INSERT INTO t (...) SELECT ... WHERE NOT EXISTS (SELECT 1 FROM t WHERE id = ...):
\* the SELECT yields the record's values as one row, or no row
InsertWhereNotExists(rows, rec) ==
    LET selected == IF ~(\E i \in 1..Len(rows) : rows[i].id = rec.id)
                       THEN <<rec>> ELSE <<>>
    IN  rows \o selected

\* cur.executemany(sql, coll) runs the statement for each record, in order
RECURSIVE SQLite_executemany(_, _)
SQLite_executemany(rows, coll) ==
    IF coll = <<>> THEN rows
    ELSE SQLite_executemany(InsertOrIgnore(rows, Head(coll)), Tail(coll))

RECURSIVE Postgres_executemany(_, _)
Postgres_executemany(rows, coll) ==
    IF coll = <<>> THEN rows
    ELSE Postgres_executemany(InsertWhereNotExists(rows, Head(coll)), Tail(coll))

\* SQLiteDBManager.insert_ignore_many
SQLite_insert_ignore_many(rows, coll) == SQLite_executemany(rows, coll)

\* PostgresDBManager.insert_ignore_many (under LOCK TABLE, one transaction)
Postgres_insert_ignore_many(rows, coll) == Postgres_executemany(rows, coll)

insert_ignore_many(backend, rows, coll) ==
    IF backend = "sqlite" THEN SQLite_insert_ignore_many(rows, coll)
    ELSE Postgres_insert_ignore_many(rows, coll)

InitInsert ==
    /\ \E backend \in {"sqlite", "postgres"} :
          tbl = [backend |-> backend, rows |-> <<>>, before |-> <<>>,
                 coll |-> <<>>, called |-> FALSE]
    /\ testcases = <<>>
    /\ args = NoArgs
    /\ NoJob
    /\ NoRun
    /\ NoCondor
    /\ NoSig /\ NoDB /\ NoInterp /\ NoMeta

InsertIgnoreMany ==
    /\ \E coll \in Colls :
          tbl' = [tbl EXCEPT !.before = tbl.rows,
                             !.rows = insert_ignore_many(tbl.backend, tbl.rows, coll),
                             !.coll = coll,
                             !.called = TRUE]
    /\ UNCHANGED <<testcases, args, jobVars, runVars, sig, db, interp, meta, condor>>

NextInsert == InsertIgnoreMany

SpecInsert == InitInsert /\ [][NextInsert]_vars

----------------------------------------------------------------------------
(* SpecDB: Runtests.run with a DBManager as its one handler.                *)
(* SQLiteDBManager.__init__ opens its connection; a PostgresDBManager is    *)
(* connected by main before a local run and not before a condor run.        *)
InitDB ==
    /\ \E n \in 0..MaxRunTests :
          /\ testcases \in [1..n -> { NewTestCase(neg) : neg \in BOOLEAN }]
          /\ \E ts \in Orders(n) :
                /\ batches = Job_add_testcases(None, NewJobBatches, ts)
                /\ discovered = ts
    /\ batch_size = None
    /\ args = NoArgs
    /\ handlers = <<1>>
    /\ log = << <<>> >>
    /\ pc = "idle"
    /\ hidx = 1
    /\ current = 0
    /\ timer = "unset"
    /\ exc = ""
    /\ popped = <<>>
    /\ \E backend \in {"sqlite", "postgres"}, wait \in BOOLEAN :
          \E c \in IF backend = "sqlite" THEN {"open"} ELSE {"none", "open"} :
              db = [handler |-> 1, backend |-> backend, wait_for_batch |-> wait,
                    conn |-> c, cur |-> c, written |-> {}, misuse |-> FALSE]
    /\ NoCondor
    /\ NoSig /\ NoInterp /\ NoMeta /\ NoTbl

NextDB ==
    \/ RunStart
    \/ StartBatchNotify
    \/ StartBatchDone
    \/ GetTestcase
    \/ StartTestNotify
    \/ StartTestDone
    \/ RunTestReturns
    \/ RunTestRaises
    \/ RunTestHangs
    \/ TestFinished
    \/ FinishTestNotify
    \/ FinishTestDone
    \/ StopTimer
    \/ EndBatchNotify

SpecDB == InitDB /\ [][NextDB]_vars

----------------------------------------------------------------------------
(* SpecMeta: the metadata of one TestCase and the file it is loaded from.   *)
Directives == {"negative", "onlyStrict", "noStrict", "raw"}

IncludeLists == { <<>>, <<"helper.js">> }

\* The contents a test file can have: its directives and its include list
Files == [directives : SUBSET Directives, includes : IncludeLists]

\* parseTestRecord(buf, filename): the record of the directives of the file;
\* the key 'includes' is there when the file names helper files
parseTestRecord(buf) ==
    [keys |-> buf.directives \cup (IF buf.includes # <<>> THEN {"includes"} ELSE {}),
     includes |-> buf.includes]

\* The class attributes of TestCase before any load (includes = None)
NewMeta(file) ==
    [test_record_loaded |-> FALSE, negative |-> FALSE, onlystrict |-> FALSE,
     nostrict |-> FALSE, includes |-> <<"None">>, file |-> file, reads |-> 0]

\* Mutant: no test_record_loaded guard, the file is read on every call
fetch_file_info_unguarded(self) ==
    LET test_record == parseTestRecord(self.file)
    IN  [self EXCEPT !.reads = @ + 1,
                     !.negative = "negative" \in test_record.keys,
                     !.onlystrict = "onlyStrict" \in test_record.keys,
                     !.nostrict = "noStrict" \in test_record.keys
                                     \/ "raw" \in test_record.keys,
                     !.includes = IF "includes" \in test_record.keys
                                     /\ test_record.includes # <<>>
                                     THEN test_record.includes ELSE <<>>,
                     !.test_record_loaded = TRUE]

\* TestCase.fetch_file_info, the file being readable
fetch_file_info(self) ==
    IF ~self.test_record_loaded
        THEN LET test_record == parseTestRecord(self.file)
             IN  [self EXCEPT !.reads = @ + 1,
                              !.negative = "negative" \in test_record.keys,
                              !.onlystrict = "onlyStrict" \in test_record.keys,
                              !.nostrict = "noStrict" \in test_record.keys
                                              \/ "raw" \in test_record.keys,
                              !.includes = IF "includes" \in test_record.keys
                                              /\ test_record.includes # <<>>
                                              THEN test_record.includes ELSE <<>>,
                              !.test_record_loaded = TRUE]
        ELSE self

\* The four fields the load fills in
MetaFields(self) ==
    [negative |-> self.negative, onlystrict |-> self.onlystrict,
     nostrict |-> self.nostrict, includes |-> self.includes]

\* TestCase(filename, lazy): a non-lazy constructor loads at once
InitMeta ==
    /\ \E file \in Files, lazy \in BOOLEAN :
          LET self == IF lazy THEN NewMeta(file) ELSE fetch_file_info(NewMeta(file))
          IN  meta = [self |-> self,
                      first |-> IF self.test_record_loaded THEN MetaFields(self) ELSE <<>>,
                      call |-> "init", ret |-> <<>>]
    /\ testcases = <<>>
    /\ args = NoArgs
    /\ NoJob
    /\ NoRun
    /\ NoCondor
    /\ NoSig /\ NoDB /\ NoInterp /\ NoTbl

metaUnchanged == <<testcases, args, jobVars, runVars, sig, db, interp, tbl, condor>>

\* The state after a call that ran fetch_file_info and returned ret;
\* first keeps the fields as the first completed load left them
AfterCall(name, after, ret) ==
    /\ meta' = [self |-> after,
                first |-> IF ~meta.self.test_record_loaded /\ after.test_record_loaded
                             THEN MetaFields(after) ELSE meta.first,
                call |-> name, ret |-> ret]
    /\ UNCHANGED metaUnchanged

FetchFileInfo ==
    LET after == fetch_file_info(meta.self)
    IN  AfterCall("fetch_file_info", after, <<>>)

IsNegative ==
    LET after == fetch_file_info(meta.self)
    IN  AfterCall("is_negative", after, <<after.negative>>)

GetIncludes ==
    LET after == fetch_file_info(meta.self)
    IN  AfterCall("get_includes", after, <<after.includes>>)

\* usesInclude: len(self.get_includes()) > 0
UsesInclude ==
    LET after == fetch_file_info(meta.self)
    IN  AfterCall("usesInclude", after, <<Len(after.includes) > 0>>)

\* open() raises IOError inside a call that needs the load: nothing is read
\* and no field is assigned
OpenRaises ==
    /\ ~meta.self.test_record_loaded
    /\ meta' = [meta EXCEPT !.call = "IOError", !.ret = <<>>]
    /\ UNCHANGED metaUnchanged

\* The file is edited on disk between two calls
FileChanges ==
    /\ \E file \in Files \ {meta.self.file} :
          meta' = [meta EXCEPT !.self.file = file, !.call = "edit", !.ret = <<>>]
    /\ UNCHANGED metaUnchanged

NextMeta ==
    \/ FetchFileInfo
    \/ IsNegative
    \/ GetIncludes
    \/ UsesInclude
    \/ OpenRaises
    \/ FileChanges

SpecMeta == InitMeta /\ [][NextMeta]_vars

----------------------------------------------------------------------------
(* SpecCondor: the database ids of a job and its dispatch to the cluster.   *)
(* Submit mode: create_job_batches_runs, then condor_submit.  Worker mode:  *)
(* main from the choice of the batch on, condor_update_job, then run.       *)

\* Python values whose type matters to str.join and int()
PyInt(n) == [type |-> "int", v |-> n]
PyStr(s) == [type |-> "str", v |-> s]
PyBool(b) == [type |-> "bool", v |-> b]

\* A key that the dict does not have
Absent == [type |-> "absent", v |-> 0]

\* _dbid before any insert
Default_dbid == 0

\* TestBatch.condor_proc before condor_update_job
Default_condor_proc == -1

\* sep.join(items): every item must be a str
join(items) ==
    IF \A k \in 1..Len(items) : items[k].type = "str"
        THEN [raised |-> FALSE, v |-> PyStr([k \in 1..Len(items) |-> items[k].v])]
        ELSE [raised |-> TRUE, v |-> PyStr(<<>>)]

\* The objects of a job, as create_job_batches_runs meets them
JobObj == [kind |-> "job", batch |-> 0, test |-> 0]
BatchObj(i) == [kind |-> "batch", batch |-> i, test |-> 0]
TestObj(i, t) == [kind |-> "test", batch |-> i, test |-> t]

\* for test in batch.get_testcases(): the pending tests of batch i, in order
TestsOf(bs, i) ==
    [k \in 1..Len(bs[i].pending_tests) |-> TestObj(i, bs[i].pending_tests[k])]

\* Mutant: the tests of a batch are inserted before the batch itself
BatchThenTests_reversed(bs, i) == TestsOf(bs, i) \o <<BatchObj(i)>>

\* self.insert_object(batch), then insert_object(test) for each of its tests
BatchThenTests(bs, i) == <<BatchObj(i)>> \o TestsOf(bs, i)

RECURSIVE BatchesFrom(_, _)
BatchesFrom(bs, i) ==
    IF i > Len(bs) THEN <<>>
    ELSE BatchThenTests(bs, i) \o BatchesFrom(bs, i + 1)

\* DBManager.create_job_batches_runs: the objects in the order of their insert
create_job_batches_runs(bs) == <<JobObj>> \o BatchesFrom(bs, 1)

\* TestBatch.add_job_id: self.job is the Job that made the batch
add_job_id(c, d) == [d EXCEPT !.job_id = c.job_dbid]

\* TestCase._db_dict: `if self.batch` is the truth value of the TestBatch,
\* which is its __len__, the number of pending tests
TestCase_db_dict(c, bs, obj) ==
    LET d == [table |-> "test_runs", obj |-> obj, id |-> Absent,
              job_id |-> Absent, batch_id |-> Absent]
    IN  IF Len(bs[obj.batch].pending_tests) > 0
            THEN add_job_id(c, [d EXCEPT !.batch_id = c.batch_dbid[obj.batch]])
            ELSE d

\* TestBatch._db_dict
TestBatch_db_dict(c, obj) ==
    add_job_id(c, [table |-> "test_batches", obj |-> obj, id |-> Absent,
                   job_id |-> Absent, batch_id |-> Absent])

\* Job._db_dict
Job_db_dict(obj) ==
    [table |-> "test_jobs", obj |-> obj, id |-> Absent,
     job_id |-> Absent, batch_id |-> Absent]

db_dict(c, bs, obj) ==
    CASE obj.kind = "job" -> Job_db_dict(obj)
      [] obj.kind = "batch" -> TestBatch_db_dict(c, obj)
      [] obj.kind = "test" -> TestCase_db_dict(c, bs, obj)

\* insert(table, dic): the row gets the next id of its table, which is
\* returned (cur.lastrowid, RETURNING id)
insert(c, dic) ==
    LET id == PyInt(c.seq[dic.table] + 1)
    IN  [c EXCEPT !.rows = Append(@, [dic EXCEPT !.id = id]),
                  !.seq[dic.table] = @ + 1,
                  !.returned = id]

\* DBManager.insert_object: obj._dbid = self.insert(obj._table, obj.db_dict())
insert_object(c, bs, obj) ==
    LET c1 == insert(c, db_dict(c, bs, obj))
    IN  CASE obj.kind = "job" -> [c1 EXCEPT !.job_dbid = c1.returned]
          [] obj.kind = "batch" -> [c1 EXCEPT !.batch_dbid[obj.batch] = c1.returned]
          [] obj.kind = "test" -> [c1 EXCEPT !.tc_dbid[obj.test] = c1.returned]

\* Ids already used in the tables by earlier jobs
UsedIds == {0, 3}

\* The batch sizes main and the command line give a job
CondorBatchSizes == {None, <<0>>, <<1>>, <<2>>}

\* A job as main builds it, nothing of it in the database yet
NewCondor(mode, n, bs, used, flag, env) ==
    [mode |-> mode,
     cpc |-> IF mode = "submit" THEN "create" ELSE "pick_batch",
     i |-> 1,
     seq |-> [test_jobs |-> used, test_batches |-> used, test_runs |-> used],
     rows |-> <<>>,
     returned |-> PyInt(Default_dbid),
     job_dbid |-> PyInt(Default_dbid),
     batch_dbid |-> [b \in 1..Len(bs) |-> PyInt(Default_dbid)],
     condor_proc |-> [b \in 1..Len(bs) |-> Default_condor_proc],
     tc_dbid |-> [t \in 1..n |-> PyInt(Default_dbid)],
     initial_args |-> [interp_path |-> PyStr("path"), debug |-> PyBool(flag),
                       verbose |-> PyBool(FALSE), no_parasite |-> PyBool(FALSE)],
     classad |-> <<>>,
     submitted |-> 0,
     environ |-> env,
     wait_for_batch |-> FALSE,
     batch |-> <<0>>,
     exc |-> ""]

\* The values the scheduler can have put in the environment of a worker
Environs ==
    [PROCID : 0..1, JOBID : {1, 4}, BATCHID : {2, 5},
     TESTIDS : { <<>>, <<7>>, <<7, 8>>, <<9, 8>> }]

NoEnviron == [PROCID |-> 0, JOBID |-> 0, BATCHID |-> 0, TESTIDS |-> <<>>]

InitCondor ==
    /\ \E n \in 0..MaxRunTests :
          /\ testcases \in [1..n -> { NewTestCase(neg) : neg \in {FALSE} }]
          /\ \E ts \in Orders(n) : discovered = ts
          /\ \/ /\ batch_size \in CondorBatchSizes
                /\ batches = Job_add_testcases(batch_size, NewJobBatches, discovered)
                /\ \E used \in UsedIds, flag \in BOOLEAN :
                      condor = NewCondor("submit", n, batches, used, flag, NoEnviron)
             \/ /\ batch_size = <<0>>
                /\ batches = Job_add_testcases(batch_size, NewJobBatches, discovered)
                /\ \E env \in Environs :
                      condor = NewCondor("worker", n, batches, 0, FALSE, env)
    /\ args = NoArgs
    /\ NoRun
    /\ NoSig /\ NoDB /\ NoInterp /\ NoMeta /\ NoTbl

condorUnchanged == <<testcases, args, jobVars, runVars, sig, db, interp, meta, tbl>>

\* create_job_batches_runs: the next insert_object of the nested loops
CJ_InsertObject ==
    /\ condor.mode = "submit"
    /\ condor.cpc = "create"
    /\ condor.i <= Len(create_job_batches_runs(batches))
    /\ condor' = [insert_object(condor, batches, create_job_batches_runs(batches)[condor.i])
                      EXCEPT !.i = @ + 1]
    /\ UNCHANGED condorUnchanged

\* create_job_batches_runs returns; main goes on to condor_submit
CJ_Done ==
    /\ condor.mode = "submit"
    /\ condor.cpc = "create"
    /\ condor.i > Len(create_job_batches_runs(batches))
    /\ condor' = [condor EXCEPT !.cpc = "condor_submit"]
    /\ UNCHANGED condorUnchanged

\* The decimal text of an id, and what int() makes of such a text
TextOf(n) == PyStr(<<n>>)
int(s) == PyInt(s.v[1])

\* map(lambda b: b._dbid, batches)
batch_ids(c, bs) == [i \in 1..Len(bs) |-> c.batch_dbid[i]]

\* " ".join(map(lambda t: t.get_relpath(), tcs)) for each batch: a path is a str
tc_paths(bs) ==
    [i \in 1..Len(bs) |->
        join([k \in 1..Len(bs[i].pending_tests) |-> TextOf(bs[i].pending_tests[k])])]

\* ",".join(map(lambda t: t._dbid, tcs)) for each batch: the ids as insert left them
tc_ids(c, bs) ==
    [i \in 1..Len(bs) |->
        join([k \in 1..Len(bs[i].pending_tests) |-> c.tc_dbid[bs[i].pending_tests[k]]])]

\* condor_submit: a join of the test ids raises TypeError
CS_TcIdsRaises ==
    /\ condor.cpc = "condor_submit"
    /\ \E i \in 1..Len(batches) : tc_ids(condor, batches)[i].raised
    /\ condor' = [condor EXCEPT !.cpc = "raised", !.exc = "TypeError"]
    /\ UNCHANGED condorUnchanged

\* condor_submit: the custom attributes of the ClassAd
CS_ClassAd ==
    /\ condor.cpc = "condor_submit"
    /\ \A i \in 1..Len(batches) : ~tc_ids(condor, batches)[i].raised
    /\ condor' = [condor EXCEPT
                     !.classad = [tests |-> [i \in 1..Len(batches) |-> tc_paths(batches)[i].v],
                                  batchids |-> batch_ids(condor, batches),
                                  testids |-> [i \in 1..Len(batches) |-> tc_ids(condor, batches)[i].v]],
                     !.cpc = "arguments"]
    /\ UNCHANGED condorUnchanged

\* The argument list: --condor_run, then --arg and its value for the copied
\* arguments, then the expansion of the tests of the process
arguments(a) ==
    <<PyStr("--condor_run"),
      PyStr("--interp_path"), a.interp_path,
      PyStr("--no_parasite"), a.no_parasite,
      PyStr("--debug"), a.debug,
      PyStr("--verbose"), a.verbose,
      PyStr("$$([tests[ProcId]])")>>

\* condor_submit: c['Arguments'] = ' '.join(arguments).  The statements after
\* it (the environment, sched.submit) run only when the join returns.
CS_Arguments ==
    /\ condor.cpc = "arguments"
    /\ IF join(arguments(condor.initial_args)).raised
          THEN condor' = [condor EXCEPT !.cpc = "raised", !.exc = "TypeError"]
          ELSE condor' = [condor EXCEPT !.cpc = "environment"]
    /\ UNCHANGED condorUnchanged

\* os.environ['_RUNTESTS_TESTIDS'].split(","): the empty text gives one empty text
split(ids) ==
    IF ids = <<>> THEN <<PyStr(<<>>)>> ELSE [k \in 1..Len(ids) |-> TextOf(ids[k])]

Min(a, b) == IF a < b THEN a ELSE b

\* zip(tcs, tc_ids): tc._dbid = tc_id for the pairs of the two lists
zip_assign(tc_dbid, tcs, ids) ==
    [t \in DOMAIN tc_dbid |->
        IF \E k \in 1..Min(Len(tcs), Len(ids)) : tcs[k] = t
            THEN ids[CHOOSE k \in 1..Min(Len(tcs), Len(ids)) : tcs[k] = t]
            ELSE tc_dbid[t]]

\* condor_update_job: the ids of the environment are put on the job, on
\* job.batches[0] and on its tests; the method has no return statement
condor_update_job(c, bs) ==
    [c EXCEPT !.job_dbid = int(TextOf(c.environ.JOBID)),
              !.batch_dbid[1] = int(TextOf(c.environ.BATCHID)),
              !.condor_proc[1] = int(TextOf(c.environ.PROCID)).v,
              !.tc_dbid = zip_assign(@, bs[1].pending_tests, split(c.environ.TESTIDS)),
              !.returned = None]

\* main: dbmanager.wait_for_batch = True; batch = self.condor_update_job(job, dbmanager)
W_CondorUpdateJob ==
    /\ condor.mode = "worker"
    /\ condor.cpc = "pick_batch"
    /\ LET c == condor_update_job([condor EXCEPT !.wait_for_batch = TRUE], batches)
       IN  condor' = [c EXCEPT !.batch = c.returned, !.cpc = "run"]
    /\ UNCHANGED condorUnchanged

\* main: self.run(batch); run starts with batch.set_machine_details()
W_Run ==
    /\ condor.mode = "worker"
    /\ condor.cpc = "run"
    /\ IF condor.batch = None
          THEN condor' = [condor EXCEPT !.cpc = "raised", !.exc = "AttributeError"]
          ELSE condor' = [condor EXCEPT !.cpc = "running"]
    /\ UNCHANGED condorUnchanged

NextCondor ==
    \/ CJ_InsertObject
    \/ CJ_Done
    \/ CS_TcIdsRaises
    \/ CS_ClassAd
    \/ CS_Arguments
    \/ W_CondorUpdateJob
    \/ W_Run

SpecCondor == InitCondor /\ [][NextCondor]_vars

----------------------------------------------------------------------------
(* Properties of TestCase.set_result, checked under SpecSetResult *)
TerminalResults == {TestCase_PASS, TestCase_FAIL, TestCase_ABORT, TestCase_TIMEOUT}

\* C1: after set_result, for every interpreter verdict, negative flag and
\* output, the result is one of PASS, FAIL, ABORT, TIMEOUT, never UNKNOWN.
C1_ResultIsTerminal ==
    args.called =>
        /\ testcases[1].result \in TerminalResults
        /\ testcases[1].result # TestCase_UNKNOWN

C1_Witness ==
    /\ args.called
    /\ ~testcases[1].negative
    /\ args.interp_result = Interpreter_FAIL
    /\ testcases[1].result = TestCase_FAIL

\* C2: on a negative test whose output does not contain the marker, verdict
\* PASS gives result FAIL and verdict FAIL gives result PASS.
C2_NegativeInversion ==
    (args.called /\ testcases[1].negative /\ ~HasMarker(args.stdout, args.stderr)) =>
        /\ args.interp_result = Interpreter_PASS => testcases[1].result = TestCase_FAIL
        /\ args.interp_result = Interpreter_FAIL => testcases[1].result = TestCase_PASS

C2_Witness ==
    /\ args.called
    /\ testcases[1].negative
    /\ ~HasMarker(args.stdout, args.stderr)
    /\ args.stderr # <<>>
    /\ args.interp_result = Interpreter_FAIL
    /\ testcases[1].result = TestCase_PASS

\* C3: on a negative test whose stdout or stderr contains "NotEarlyError",
\* the result is FAIL for verdict PASS and for verdict FAIL, the stored stderr
\* is the captured stderr followed by the note, and stdout is stored unchanged.
C3_EarlyErrorMarker ==
    (/\ args.called
     /\ testcases[1].negative
     /\ HasMarker(args.stdout, args.stderr)
     /\ args.interp_result \in {Interpreter_PASS, Interpreter_FAIL}) =>
        /\ testcases[1].result = TestCase_FAIL
        /\ testcases[1].stderr = args.stderr \o EarlyErrorNote
        /\ testcases[1].stdout = args.stdout

C3_Witness ==
    /\ args.called
    /\ testcases[1].negative
    /\ Contains(args.stdout, NotEarlyError)
    /\ ~Contains(args.stderr, NotEarlyError)
    /\ args.interp_result = Interpreter_FAIL
    /\ testcases[1].result = TestCase_FAIL
    /\ Len(testcases[1].stderr) = Len(args.stderr) + Len(EarlyErrorNote)

\* C4: verdict ABORT always gives result ABORT and verdict TIMEOUT always
\* gives result TIMEOUT, whatever the negative flag and the output, and the
\* stored stderr is the captured stderr with no note.
C4_AbortTimeoutKept ==
    args.called =>
        /\ args.interp_result = Interpreter_ABORT =>
              /\ testcases[1].result = TestCase_ABORT
              /\ testcases[1].stderr = args.stderr
        /\ args.interp_result = Interpreter_TIMEOUT =>
              /\ testcases[1].result = TestCase_TIMEOUT
              /\ testcases[1].stderr = args.stderr

C4_Witness ==
    /\ args.called
    /\ testcases[1].negative
    /\ HasMarker(args.stdout, args.stderr)
    /\ args.interp_result = Interpreter_TIMEOUT
    /\ testcases[1].result = TestCase_TIMEOUT

\* C5: on a test not marked negative with a verdict other than ABORT and
\* TIMEOUT, verdict PASS gives PASS and any other verdict gives FAIL, whether
\* or not the output contains the marker.
C5_NormalTest ==
    (/\ args.called
     /\ ~testcases[1].negative
     /\ args.interp_result \notin {Interpreter_ABORT, Interpreter_TIMEOUT}) =>
        /\ testcases[1].result =
              (IF args.interp_result = Interpreter_PASS THEN TestCase_PASS
                                                        ELSE TestCase_FAIL)
        /\ testcases[1].stderr = args.stderr

C5_Witness ==
    /\ args.called
    /\ ~testcases[1].negative
    /\ HasMarker(args.stdout, args.stderr)
    /\ args.interp_result = Interpreter_PASS
    /\ testcases[1].result = TestCase_PASS

----------------------------------------------------------------------------
(* Properties of the batch partitioning, checked under SpecJob *)
Ceil(n, k) == (n + k - 1) \div k

RECURSIVE PendingConcat(_)
PendingConcat(bs) ==
    IF bs = <<>> THEN <<>> ELSE Head(bs).pending_tests \o PendingConcat(Tail(bs))

\* Every batch but the last holds exactly k tests, none holds more than k,
\* and the pending queues, concatenated, are the tests in discovery order
PartitionShape(k) ==
    /\ \A i \in 1..(Len(batches) - 1) : Len(batches[i].pending_tests) = k
    /\ \A i \in 1..Len(batches) : Len(batches[i].pending_tests) <= k
    /\ PendingConcat(batches) = discovered

\* C6 as stated: with batch size k > 0, N tests added to a fresh Job give
\* exactly ceil(N/k) batches (for every N >= 0), every batch but possibly
\* the last of size exactly k, none larger than k, in discovery order.
C6_Original ==
    Truthy(batch_size) =>
        /\ Len(batches) = Ceil(Len(discovered), batch_size[1])
        /\ PartitionShape(batch_size[1])

\* C6 amended: with batch size k > 0, N tests added to a fresh Job give
\* exactly ceil(N/k) batches when N >= 1 and exactly one, empty, batch when
\* N = 0; every batch but possibly the last holds exactly k tests, none
\* holds more than k, and the queues concatenated are the discovery order.
C6_Partition ==
    Truthy(batch_size) =>
        /\ Len(batches) =
              (IF Len(discovered) = 0 THEN 1
               ELSE Ceil(Len(discovered), batch_size[1]))
        /\ PartitionShape(batch_size[1])

C6_Witness ==
    /\ batch_size = <<2>>
    /\ Len(discovered) = 3
    /\ discovered[1] > discovered[2]
    /\ Len(batches) = 2
    /\ Len(batches[2].pending_tests) = 1

\* C7: with batch size 0 or unset, N tests added to a fresh Job give exactly
\* one batch whose pending queue holds all N tests in discovery order.
C7_SingleBatch ==
    ~Truthy(batch_size) =>
        /\ Len(batches) = 1
        /\ batches[1].pending_tests = discovered

C7_Witness ==
    /\ batch_size = <<0>>
    /\ Len(discovered) = 3
    /\ discovered[1] > discovered[3]
    /\ Len(batches) = 1
    /\ Len(batches[1].pending_tests) = 3

----------------------------------------------------------------------------
(* Properties of Runtests.run, checked under Spec *)
NoDuplicates(s) == \A i, j \in 1..Len(s) : s[i] = s[j] => i = j

Count(s, x) == Cardinality({ i \in 1..Len(s) : s[i] = x })

\* C8: the three buckets are pairwise disjoint, hold no test twice and are
\* disjoint from the pending queue in every state, and once the batch is
\* finished every test popped from the queue is in exactly one bucket.
C8_BucketsDisjoint ==
    LET b == batches[1]
    IN  /\ NoDuplicates(get_finished_testcases(b) \o b.pending_tests)
        /\ timer = "stopped" =>
              \A t \in Range(popped) : Count(get_finished_testcases(b), t) = 1

C8_Witness ==
    /\ timer = "stopped"
    /\ Len(popped) = 2
    /\ Len(batches[1].passed_tests) = 1
    /\ Len(batches[1].aborted_tests) = 1
    /\ batches[1].pending_tests = <<>>

\* C9 as stated: when a handler raises while processing a notification,
\* every other registered handler still receives that notification and the
\* run goes on instead of aborting.
C9_HandlerIsolation ==
    exc = "HandlerError" =>
        /\ \A j \in 1..Len(handlers) :
              Count(log[handlers[j]], log[handlers[hidx]][Len(log[handlers[hidx]])]) = 1
        /\ pc # "aborted"

\* C10 as stated: once the pending queue is empty and the timer is stopped,
\* a run that has ended has delivered finish_batch to every registered
\* handler exactly once, as the last notification of the batch.
C10_FinishBatchDelivered ==
    (timer = "stopped" /\ pc \in {"done", "aborted"}) =>
        \A j \in 1..Len(handlers) :
            /\ Count(log[handlers[j]], <<"finish_batch", 0>>) = 1
            /\ log[handlers[j]][Len(log[handlers[j]])] = <<"finish_batch", 0>>

----------------------------------------------------------------------------
(* Properties of the notifications and of the interruption, under Spec *)
Filed(t) == Count(get_finished_testcases(batches[1]), t) = 1

\* run_test has been entered for t
InterpreterRan(t) ==
    \/ testcases[t].interp_result # NoValue
    \/ /\ current = t
       /\ pc \in {"run_test", "communicate"} \/ exc = "RunTestError"

\* C11: every handler receives start_batch before any start_test or
\* finish_test of the batch, has received start_test(t) when the interpreter
\* runs t, and receives finish_test(t) only after start_test(t) and after t
\* has been classified and filed in its bucket.
C11_NotificationOrder ==
    \A j \in 1..Len(handlers) :
        LET L == log[handlers[j]]
        IN  /\ \A i \in 1..Len(L) :
                  L[i][1] \in {"start_test", "finish_test"} =>
                      \E k \in 1..(i - 1) : L[k] = <<"start_batch", 0>>
            /\ \A t \in Range(popped) :
                  /\ InterpreterRan(t) => \E i \in 1..Len(L) : L[i] = <<"start_test", t>>
                  /\ \A i \in 1..Len(L) :
                        L[i] = <<"finish_test", t>> =>
                            /\ Filed(t)
                            /\ testcases[t].result \in TerminalResults
                            /\ \E k \in 1..(i - 1) : L[k] = <<"start_test", t>>

C11_Witness ==
    /\ Len(handlers) = 2
    /\ Len(popped) = 2
    /\ log[handlers[2]] = <<<<"start_batch", 0>>, <<"start_test", popped[1]>>,
                            <<"finish_test", popped[1]>>, <<"start_test", popped[2]>>>>
    /\ pc = "run_test"

\* C12 as stated: once an interrupt is received no further step of the loop
\* is taken (no test is popped), and when the process exits its status is
\* non-zero, every handler's interrupt_handler has been called exactly once,
\* and no batch is half-persisted: every test completed (filed in a bucket)
\* by then has been reported to every handler through finish_test.
C12_Interruption ==
    /\ sig.interrupted => pc \in {"interrupt_handler", "exited"}
    /\ pc = "exited" =>
          /\ sig.status # NoValue /\ sig.status # 0
          /\ \A j \in 1..Len(handlers) :
                /\ Count(log[handlers[j]], <<"interrupt", 0>>) = 1
                /\ \A t \in Range(get_finished_testcases(batches[1])) :
                      Count(log[handlers[j]], <<"finish_test", t>>) = 1

\* C13 as stated: at the moment the process exits after an interrupt, every
\* test popped from the pending queue has been filed in a bucket and
\* reported to every handler through finish_test.
C13_CooperativeCancellation ==
    pc = "exited" =>
        \A t \in Range(popped) :
            /\ Filed(t)
            /\ \A j \in 1..Len(handlers) :
                  \E i \in 1..Len(log[handlers[j]]) :
                      log[handlers[j]][i] = <<"finish_test", t>>

\* C14 as stated: when the execution of a test fails (the subprocess cannot
\* be run), the test still gets the terminal result FAIL, ABORT or TIMEOUT
\* and the run is not ended by the failure.
C14_PerTestFailureContained ==
    exc = "RunTestError" =>
        /\ testcases[current].result \in {TestCase_FAIL, TestCase_ABORT, TestCase_TIMEOUT}
        /\ pc # "aborted"

\* C15 as stated: a test whose subprocess never exits does not block the
\* batch: run_test returns, with the verdict TIMEOUT recorded for the test.
C15_TimeoutBound ==
    (pc = "communicate") ~>
        (/\ pc # "communicate"
         /\ current \in DOMAIN testcases
         /\ testcases[current].result = TestCase_TIMEOUT)

----------------------------------------------------------------------------
(* Properties of Interpreter.run_test, checked under SpecRunTest *)

\* C16: determine_result gives PASS when ret is the engine's pass_code, FAIL
\* when ret is not the pass_code and is the engine's fail_code, ABORT for
\* every other code, and never TIMEOUT; the engines differ only in their
\* codes (fail_code is 3 for Spidermonkey, 1 for the others; pass_code 0).
C16_DetermineResult ==
    interp.verdict # NoValue =>
        LET e == interp.self
            ret == interp.ret
        IN  /\ ret = e.pass_code => interp.verdict = Interpreter_PASS
            /\ (ret # e.pass_code /\ ret = e.fail_code) => interp.verdict = Interpreter_FAIL
            /\ (ret # e.pass_code /\ ret # e.fail_code) => interp.verdict = Interpreter_ABORT
            /\ interp.verdict # Interpreter_TIMEOUT
            /\ e.pass_code = 0
            /\ e.fail_code = (IF e.arg_name = "spidermonkey" THEN 3 ELSE 1)

C16_Witness ==
    /\ interp.self = Spidermonkey
    /\ interp.ret = 3
    /\ interp.verdict = Interpreter_FAIL
    /\ interp.rpc = "returned"

\* C17 as stated: for an engine whose setup changes the working directory,
\* when run_test has ended, by returning or by raising, teardown has run and
\* the working directory is the one run_test was called in.
C17_ScopedSetupTeardown ==
    (interp.self.chdir /\ interp.rpc \in {"returned", "raised"}) =>
        /\ interp.tornDown
        /\ interp.cwd = "start_dir"

----------------------------------------------------------------------------
(* Properties of insert_ignore_many, checked under SpecInsert *)
RowsWithId(rows, id) == Cardinality({ i \in 1..Len(rows) : rows[i].id = id })

\* C18: after insert_ignore_many, on either backend, the rows the table held
\* before the call are still there with their content, every id of the table
\* or of the records has exactly one row, and calling insert_ignore_many
\* again with the same records leaves the table as it is.
C18_InsertIgnoreIdempotent ==
    tbl.called =>
        /\ \A i \in 1..Len(tbl.before) :
              /\ i <= Len(tbl.rows)
              /\ tbl.rows[i] = tbl.before[i]
        /\ \A id \in Ids :
              RowsWithId(tbl.rows, id) =
                  (IF HasId(tbl.before, id) \/ HasId(tbl.coll, id) THEN 1 ELSE 0)
        /\ insert_ignore_many(tbl.backend, tbl.rows, tbl.coll) = tbl.rows

C18_Witness ==
    /\ tbl.called
    /\ tbl.backend = "sqlite"
    /\ tbl.before = <<[id |-> 1, negative |-> FALSE]>>
    /\ tbl.coll = <<[id |-> 1, negative |-> TRUE], [id |-> 2, negative |-> TRUE]>>
    /\ Len(tbl.rows) = 2

----------------------------------------------------------------------------
(* Property of the DBManager as a handler of run, checked under SpecDB *)

\* C19 as stated: in every run, each statement and each commit the DBManager
\* issues finds the connection and the cursor open; none is issued after a
\* disconnect without a connect in between.
C19_ScopedConnection == ~db.misuse

----------------------------------------------------------------------------
(* Property of the metadata load of TestCase, checked under SpecMeta *)

\* C20: whatever calls of fetch_file_info, is_negative, get_includes and
\* usesInclude are made, the file is read and parsed at most once, and once a
\* load has completed negative, onlystrict, nostrict and includes stay as
\* that load left them, also when the file has changed since.
C20_MemoizedLoad ==
    /\ meta.self.reads <= 1
    /\ meta.self.test_record_loaded <=> (meta.self.reads = 1)
    /\ meta.self.test_record_loaded => MetaFields(meta.self) = meta.first

C20_Witness ==
    /\ meta.call = "is_negative"
    /\ meta.self.test_record_loaded
    /\ meta.self.negative
    /\ "negative" \notin meta.self.file.directives
    /\ meta.ret = <<TRUE>>

----------------------------------------------------------------------------
(* Properties of the filing and of the order of execution, under Spec *)
ResultsIn(bucket) == { testcases[t].result : t \in Range(bucket) }

\* The bucket test_finished files a lone test with the given result in
BucketOf(result) ==
    LET b == test_finished(NewTestBatch, 1, [NewTestCase(FALSE) EXCEPT !.result = result])
    IN  [passed |-> b.passed_tests, failed |-> b.failed_tests, aborted |-> b.aborted_tests]

\* C22: test_finished files a PASS test in passed_tests, a FAIL test in
\* failed_tests and an ABORT or TIMEOUT test in aborted_tests; in every state
\* of a run passed_tests holds only PASS tests, failed_tests only FAIL tests,
\* aborted_tests only ABORT or TIMEOUT tests, and no bucket an UNKNOWN test.
C22_BucketMatchesResult ==
    LET b == batches[1]
    IN  /\ ResultsIn(b.passed_tests) \subseteq {TestCase_PASS}
        /\ ResultsIn(b.failed_tests) \subseteq {TestCase_FAIL}
        /\ ResultsIn(b.aborted_tests) \subseteq {TestCase_ABORT, TestCase_TIMEOUT}
        /\ TestCase_UNKNOWN \notin ResultsIn(get_finished_testcases(b))
        /\ BucketOf(TestCase_PASS) = [passed |-> <<1>>, failed |-> <<>>, aborted |-> <<>>]
        /\ BucketOf(TestCase_FAIL) = [passed |-> <<>>, failed |-> <<1>>, aborted |-> <<>>]
        /\ BucketOf(TestCase_ABORT) = [passed |-> <<>>, failed |-> <<>>, aborted |-> <<1>>]
        /\ BucketOf(TestCase_TIMEOUT) = [passed |-> <<>>, failed |-> <<>>, aborted |-> <<1>>]

C22_Witness ==
    /\ Len(batches[1].failed_tests) = 1
    /\ Len(batches[1].aborted_tests) = 1
    /\ pc = "finish_test"

\* Position of test t in the order the tests were added to the batch
AddedAt(t) == CHOOSE i \in 1..Len(discovered) : discovered[i] = t

IndexIn(L, e) == { i \in 1..Len(L) : L[i] = e }

\* C23: the tests are popped in the order they were added, and for tests a
\* added before b every handler that has received start_test(b) received
\* start_test(a) and finish_test(a) before it, a having been run.
C23_FifoOrder ==
    /\ \A k \in 1..Len(popped) : popped[k] = discovered[k]
    /\ \A j \in 1..Len(handlers) :
          LET L == log[handlers[j]]
          IN  \A a, b \in Range(discovered) :
                  AddedAt(a) < AddedAt(b) =>
                      \A i \in IndexIn(L, <<"start_test", b>>) :
                          /\ \E k \in IndexIn(L, <<"start_test", a>>) : k < i
                          /\ \E k \in IndexIn(L, <<"finish_test", a>>) : k < i
                          /\ testcases[a].interp_result # NoValue

C23_Witness ==
    /\ Len(discovered) = 2
    /\ discovered[1] = 2
    /\ Len(handlers) = 1
    /\ log[handlers[1]] = <<<<"start_batch", 0>>, <<"start_test", 2>>,
                            <<"finish_test", 2>>, <<"start_test", 1>>>>

\* Test t has been popped and is not yet both filed and reported to all handlers
InFlight(t) ==
    ~(/\ Filed(t)
      /\ \A j \in 1..Len(handlers) : IndexIn(log[handlers[j]], <<"finish_test", t>>) # {})

\* C24: at most one popped test is not yet filed and reported, and when the
\* interpreter is invoked for a test, finish_test of every test popped before
\* it has been delivered to all registered handlers.
C24_OneInFlight ==
    /\ Cardinality({ t \in Range(popped) : InFlight(t) }) <= 1
    /\ \A k \in 1..Len(popped) :
          InterpreterRan(popped[k]) => \A i \in 1..(k - 1) : ~InFlight(popped[i])

C24_Witness ==
    /\ Len(handlers) = 2
    /\ Len(popped) = 2
    /\ pc = "test_finished"
    /\ ~InFlight(popped[1])
    /\ InFlight(popped[2])

----------------------------------------------------------------------------
(* Properties of the database ids and of the dispatch, under SpecCondor *)
PendingOf(i) == batches[i].pending_tests

\* C21 as stated: condor_submit ends having submitted one work item per
\* batch, with the test paths, the batch id and the run ids of batch i at
\* index i; and on a worker condor_update_job has put the job id, the batch
\* id and the process index of the environment on the job and its first
\* batch, and the k-th run id on the k-th pending test.
C21_DispatchRoundTrip ==
    /\ (condor.mode = "submit" /\ condor.cpc \notin {"create", "condor_submit", "arguments"}) =>
          /\ condor.submitted = Len(batches)
          /\ \A i \in 1..Len(batches) :
                /\ condor.classad.tests[i] = [k \in 1..Len(PendingOf(i)) |-> <<PendingOf(i)[k]>>]
                /\ condor.classad.batchids[i] = condor.batch_dbid[i]
                /\ condor.classad.testids[i] =
                       [k \in 1..Len(PendingOf(i)) |-> <<condor.tc_dbid[PendingOf(i)[k]].v>>]
    /\ (condor.mode = "worker" /\ condor.cpc # "pick_batch") =>
          /\ condor.job_dbid = PyInt(condor.environ.JOBID)
          /\ condor.batch_dbid[1] = PyInt(condor.environ.BATCHID)
          /\ condor.condor_proc[1] = condor.environ.PROCID
          /\ \A k \in 1..Min(Len(PendingOf(1)), Len(condor.environ.TESTIDS)) :
                condor.tc_dbid[PendingOf(1)[k]].v = <<condor.environ.TESTIDS[k]>>

RowsOf(kind) == { r \in 1..Len(condor.rows) : condor.rows[r].obj.kind = kind }

====
